---- MODULE Spec2Model ----
(***************************************************************************)
(* The AIS ingestion pipeline of MaritimeFlow                              *)
(* (src/src/data_ingestion/ais_collectors.py): the adapters' run loops     *)
(* (BaseAISCollector.start_collection over each subclass's collect_data),  *)
(* the rate limiter, the parsers, and the supervisor AISCollectorManager,  *)
(* all running on one asyncio event loop.                                  *)
(*                                                                         *)
(* One action is one run of a coroutine from a suspension point (an await  *)
(* that really suspends) to the next one: nothing else runs in between,    *)
(* because the event loop is cooperative.  time.sleep in the rate limiter  *)
(* does not suspend the coroutine, it blocks the whole loop: while an      *)
(* adapter is in "rl_sleep" no other coroutine can take a step.            *)
(*                                                                         *)
(* The adapters are taken as constructed (BaseAISCollector.__init__); the  *)
(* entries of AIS_SOURCES that the subclasses' constructors read are       *)
(* deployment data.  The method bodies are modelled as written: the name   *)
(* `settings` is used by AISStreamCollector.collect_data (l. 281) and      *)
(* MarinePlanCollector.collect_data (l. 398) and is bound nowhere in the   *)
(* module, so evaluating it raises NameError.                              *)
(***************************************************************************)
EXTENDS Integers, Sequences, FiniteSets, TLC

\* ---------------------------------------------------------------- bounds
\* time.time() when the program starts (the epoch clock is far from 0)
StartTime == 100
\* iterations of collect_data's loop the adapters begin in a behaviour, in all
MaxAttempts == 2
\* raw messages the run loops handle in a behaviour, in all
MaxCount == 2
\* vessels in one response body
MaxBatch == 2
\* vessels in one response body under LiveSpec
LiveBatch == 0
\* start_all calls in a behaviour
MaxStarts == 2
\* collectors registered with the supervisor
MaxCollectors == 2

\* the largest navigation-status code a message of the parser check carries
MaxNavCode == 16

\* ------------------------------------------------------ program constants
\* asyncio.wait_for(task, timeout=30) in stop_all
StopTimeout == 30
\* await asyncio.sleep(60) after a non-200 status
StatusCooldown == 60
\* await asyncio.sleep(30) after an exception of the request / the connection
ErrorCooldown == 30
\* AIS_SOURCES.get(source_name, {}).get('rate_limit', 60)
DefaultRateLimit == 60
\* the numerator of 60.0 / self.rate_limit
SecondsPerMinute == 60

Adapters == {"aishub", "aisstream", "marineplan", "digitraffic"}

VARIABLES
    now,                \* time.time()
    collectors,         \* AISCollectorManager.collectors: the keys, in insertion order
    tasks,              \* AISCollectorManager.tasks: the keys, in insertion order
    mgr_is_running,     \* AISCollectorManager.is_running
    mgr_pc,             \* the caller of the supervisor: "idle" | "waiting" (inside stop_all)
    mgr_i,              \* index in tasks of the task stop_all is waiting for
    mgr_deadline,       \* when the pending wait_for times out
    starts,             \* start_all calls so far
    stop_begin,         \* time of the last stop_all call
    stop_dur,           \* duration of the last finished stop_all, -1 before
    is_running,         \* per adapter: BaseAISCollector.is_running
    last_request_time,  \* per adapter
    request_count,      \* per adapter
    error_count,        \* per adapter
    pc,                 \* per adapter: where its start_collection task is suspended
    wake,               \* per adapter: end of its pending asyncio.sleep / time.sleep
    inbox,              \* per adapter: the completed I/O its task has not yet resumed on
    received,           \* per adapter: the raw messages its run loop took from collect_data
    handed,             \* per adapter: the records passed to _publish_to_kafka, in order
    attempts,           \* per adapter: iterations of collect_data's loop begun so far
    stop_requested,     \* per adapter: stop_collection was called since its task was launched
    kafka_producer,     \* self.kafka_producer is set (the same for every collector of the process)
    failed,             \* per adapter: publishes whose send raised, so far
    broker,             \* per adapter: the messages the producer has accepted, in order
    connections,        \* aisstream: connections websockets.connect has opened so far
    subscriptions,      \* aisstream: subscription frames sent so far
    p_variant,          \* parser check: the adapter whose parse_message is applied
    p_raw,              \* parser check: the raw message
    p_out,              \* parser check: what parse_message returned
    p_done,             \* parser check: parse_message has returned
    status,             \* what the last call of get_status returned, Nothing before
    orphaned            \* per adapter: live tasks of it that self.tasks no longer holds

vars == <<now, collectors, tasks, mgr_is_running, mgr_pc, mgr_i, mgr_deadline, starts,
          stop_begin, stop_dur, is_running, last_request_time, request_count,
          error_count, pc, wake, inbox, received, handed, attempts, stop_requested,
          kafka_producer, failed, broker, connections, subscriptions,
          p_variant, p_raw, p_out, p_done, status, orphaned>>

\* what no step of the pipeline changes: the producer is made in __init__,
\* and the parser check has its own steps
envVars == <<kafka_producer, p_variant, p_raw, p_out, p_done, status, orphaned>>

\* the streaming adapter's connection counters
wsVars == <<connections, subscriptions>>

mgrVars == <<collectors, tasks, mgr_is_running, mgr_pc, mgr_i, mgr_deadline, starts,
             stop_begin, stop_dur>>

\* ------------------------------------------------------------- helpers
Some(v) == <<v>>
Nothing == <<>>
IsSome(o) == Len(o) > 0
Val(o) == o[1]

Range(s) == {s[i] : i \in DOMAIN s}

Min(S) == CHOOSE x \in S : \A y \in S : x <= y

Max2(x, y) == IF x >= y THEN x ELSE y

\* inbox: nothing has completed
NoResp == "none"

\* ------------------------------------------------------------- parsers
\* parse_message returns None
Rejected == [ok |-> FALSE]

\* Python truthiness of an optional number: None and 0 are falsy
Truthy(o) == IsSome(o) /\ Val(o) # 0

\* The timestamp strings a source sends: "" is a missing / empty field, the
\* second and third are ISO-8601 (the third with the trailing Z), the last
\* is not a date.  datetime.fromisoformat(s.replace('Z', '+00:00')) raises
\* ValueError on the last one.
Timestamps == {"", "2024-05-01T12:00:00", "2024-05-01T12:00:00Z", "yesterday"}

FromIsoFormat(s) == s \in {"2024-05-01T12:00:00", "2024-05-01T12:00:00Z"}

\* the field constraints and validators of VesselPositionBase: building a
\* VesselPositionCreate raises ValidationError when one of them fails
ValidPosition(r) ==
    /\ -90 <= r.latitude /\ r.latitude <= 90
    /\ -180 <= r.longitude /\ r.longitude <= 180
    /\ IsSome(r.course_over_ground) =>
           (0 <= Val(r.course_over_ground) /\ Val(r.course_over_ground) < 360)
    /\ IsSome(r.speed_over_ground) => 0 <= Val(r.speed_over_ground)
    /\ IsSome(r.true_heading) =>
           (0 <= Val(r.true_heading) /\ Val(r.true_heading) < 360)

VesselPositionCreate(r) == IF ValidPosition(r) THEN [ok |-> TRUE, rec |-> r] ELSE Rejected

\* StatusMap as it would be if the codes 9 to 14 were mapped to the members
\* of NavigationStatus that the enumeration reserves for them
StatusMapByEnumOrder(code) ==
    CASE code = 0 -> "under_way_using_engine"
      [] code = 1 -> "at_anchor"
      [] code = 2 -> "not_under_command"
      [] code = 3 -> "restricted_maneuverability"
      [] code = 4 -> "constrained_by_draft"
      [] code = 5 -> "moored"
      [] code = 6 -> "aground"
      [] code = 7 -> "fishing"
      [] code = 8 -> "under_way_sailing"
      [] code = 9 -> "reserved_hsc"
      [] code = 10 -> "reserved_wig"
      [] code = 11 -> "reserved_1"
      [] code = 12 -> "reserved_2"
      [] code = 13 -> "reserved_3"
      [] code = 14 -> "ais_sart"
      [] OTHER -> "not_defined"

\* the status_map of DigitalTrafficCollector.parse_message:
\* status_map.get(nav_status, NavigationStatus.NOT_DEFINED)
StatusMap(code) ==
    CASE code = 0 -> "under_way_using_engine"
      [] code = 1 -> "at_anchor"
      [] code = 2 -> "not_under_command"
      [] code = 3 -> "restricted_maneuverability"
      [] code = 4 -> "constrained_by_draft"
      [] code = 5 -> "moored"
      [] code = 6 -> "aground"
      [] code = 7 -> "fishing"
      [] code = 8 -> "under_way_sailing"
      [] code = 15 -> "not_defined"
      [] OTHER -> "not_defined"

\* AISHubCollector.parse_message.  A raw message is
\* [MMSI, LATITUDE, LONGITUDE, TIMESTAMP, COG, SOG, HEADING], each number
\* optional (Nothing: the key is missing).
ParseAISHub(raw) ==
    IF ~Truthy(raw.MMSI) THEN Rejected
    ELSE LET latitude == IF IsSome(raw.LATITUDE) THEN Val(raw.LATITUDE) ELSE 0
             longitude == IF IsSome(raw.LONGITUDE) THEN Val(raw.LONGITUDE) ELSE 0
         IN  IF ~(-90 <= latitude /\ latitude <= 90)
                  \/ ~(-180 <= longitude /\ longitude <= 180)
             THEN Rejected
             ELSE IF raw.TIMESTAMP # "" /\ ~FromIsoFormat(raw.TIMESTAMP) THEN Rejected
             ELSE VesselPositionCreate(
                    [mmsi |-> Val(raw.MMSI),
                     latitude |-> latitude,
                     longitude |-> longitude,
                     course_over_ground |-> IF Truthy(raw.COG) THEN raw.COG ELSE Nothing,
                     speed_over_ground |-> IF Truthy(raw.SOG) THEN raw.SOG ELSE Nothing,
                     true_heading |-> IF Truthy(raw.HEADING) THEN raw.HEADING ELSE Nothing,
                     navigation_status |-> Nothing,
                     timestamp |-> IF raw.TIMESTAMP # "" THEN raw.TIMESTAMP ELSE "utcnow",
                     data_source |-> "aishub"])

\* ParseDigitraffic as it would be if coordinates were read as
\* [latitude, longitude]
ParseDigitrafficLatFirst(raw) ==
    IF ~Truthy(raw.mmsi) \/ Len(raw.coordinates) < 2 THEN Rejected
    ELSE VesselPositionCreate(
           [mmsi |-> Val(raw.mmsi),
            latitude |-> raw.coordinates[1],
            longitude |-> raw.coordinates[2],
            course_over_ground |-> raw.cog,
            speed_over_ground |-> raw.sog,
            true_heading |-> IF IsSome(raw.heading) /\ Val(raw.heading) # 511
                             THEN raw.heading ELSE Nothing,
            navigation_status |-> IF IsSome(raw.navStat)
                                  THEN Some(StatusMap(Val(raw.navStat)))
                                  ELSE Nothing,
            timestamp |-> "utcnow",
            data_source |-> "digitraffic"])

\* DigitalTrafficCollector.parse_message.  A raw message (a GeoJSON feature)
\* is [coordinates, mmsi, timestampExternal, cog, sog, heading, navStat];
\* coordinates is geometry.coordinates, the others are the properties.
ParseDigitraffic(raw) ==
    IF ~Truthy(raw.mmsi) THEN Rejected
    ELSE IF Len(raw.coordinates) < 2 THEN Rejected
    ELSE LET longitude == raw.coordinates[1]
             latitude == raw.coordinates[2]
         IN  IF ~(-90 <= latitude /\ latitude <= 90)
                  \/ ~(-180 <= longitude /\ longitude <= 180)
             THEN Rejected
             ELSE IF raw.timestampExternal # "" /\ ~FromIsoFormat(raw.timestampExternal)
             THEN Rejected
             ELSE VesselPositionCreate(
                    [mmsi |-> Val(raw.mmsi),
                     latitude |-> latitude,
                     longitude |-> longitude,
                     course_over_ground |-> raw.cog,
                     speed_over_ground |-> raw.sog,
                     true_heading |-> IF IsSome(raw.heading) /\ Val(raw.heading) # 511
                                      THEN raw.heading ELSE Nothing,
                     navigation_status |-> IF IsSome(raw.navStat)
                                           THEN Some(StatusMap(Val(raw.navStat)))
                                           ELSE Nothing,
                     timestamp |-> IF raw.timestampExternal # ""
                                   THEN raw.timestampExternal ELSE "utcnow",
                     data_source |-> "digitraffic"])

\* ParseMessage as it would be if the record were built from the raw
\* fields without the coordinate check and without the model's validation
ParseMessageUnchecked(a, raw) ==
    IF a = "aishub"
    THEN IF ~Truthy(raw.MMSI) THEN Rejected
         ELSE [ok |-> TRUE,
               rec |-> [mmsi |-> Val(raw.MMSI),
                        latitude |-> IF IsSome(raw.LATITUDE) THEN Val(raw.LATITUDE) ELSE 0,
                        longitude |-> IF IsSome(raw.LONGITUDE) THEN Val(raw.LONGITUDE) ELSE 0,
                        data_source |-> "aishub"]]
    ELSE IF ~Truthy(raw.mmsi) \/ Len(raw.coordinates) < 2 THEN Rejected
         ELSE [ok |-> TRUE,
               rec |-> [mmsi |-> Val(raw.mmsi),
                        latitude |-> raw.coordinates[2],
                        longitude |-> raw.coordinates[1],
                        data_source |-> "digitraffic"]]

\* the status_map of AISStreamCollector.parse_message
StatusMapAISStream(code) ==
    CASE code = 0 -> "under_way_using_engine"
      [] code = 1 -> "at_anchor"
      [] code = 2 -> "not_under_command"
      [] code = 3 -> "restricted_maneuverability"
      [] code = 4 -> "constrained_by_draft"
      [] code = 5 -> "moored"
      [] code = 6 -> "aground"
      [] code = 7 -> "fishing"
      [] code = 8 -> "under_way_sailing"
      [] code = 15 -> "not_defined"
      [] OTHER -> "not_defined"

\* ParseAISStream as it would be with Latitude and Longitude exchanged
ParseAISStreamSwapped(raw) ==
    IF ~raw.Message \/ ~Truthy(raw.UserID) THEN Rejected
    ELSE IF ~IsSome(raw.Latitude) \/ ~IsSome(raw.Longitude) THEN Rejected
    ELSE VesselPositionCreate(
           [mmsi |-> Val(raw.UserID),
            latitude |-> Val(raw.Longitude),
            longitude |-> Val(raw.Latitude),
            course_over_ground |-> raw.CourseOverGround,
            speed_over_ground |-> raw.SpeedOverGround,
            true_heading |-> IF raw.TrueHeading # Some(511) THEN raw.TrueHeading ELSE Nothing,
            navigation_status |-> Nothing,
            timestamp |-> "utcnow",
            data_source |-> "aisstream"])

\* AISStreamCollector.parse_message.  A raw message is [Message, UserID,
\* Latitude, Longitude, time_utc, CourseOverGround, SpeedOverGround,
\* TrueHeading, NavigationalStatus]: Message tells that the 'Message' object
\* is there and not empty, the fields after it are its entries, time_utc is
\* MetaData.time_utc.
ParseAISStream(raw) ==
    IF ~raw.Message THEN Rejected
    ELSE IF ~Truthy(raw.UserID) THEN Rejected
    ELSE IF ~IsSome(raw.Latitude) \/ ~IsSome(raw.Longitude) THEN Rejected
    ELSE LET latitude == Val(raw.Latitude)
             longitude == Val(raw.Longitude)
         IN  IF ~(-90 <= latitude /\ latitude <= 90)
                  \/ ~(-180 <= longitude /\ longitude <= 180)
             THEN Rejected
             ELSE IF raw.time_utc # "" /\ ~FromIsoFormat(raw.time_utc) THEN Rejected
             ELSE VesselPositionCreate(
                    [mmsi |-> Val(raw.UserID),
                     latitude |-> latitude,
                     longitude |-> longitude,
                     course_over_ground |-> raw.CourseOverGround,
                     speed_over_ground |-> raw.SpeedOverGround,
                     true_heading |-> IF raw.TrueHeading # Some(511)
                                      THEN raw.TrueHeading ELSE Nothing,
                     navigation_status |-> IF IsSome(raw.NavigationalStatus)
                                           THEN Some(StatusMapAISStream(
                                                       Val(raw.NavigationalStatus)))
                                           ELSE Nothing,
                     timestamp |-> IF raw.time_utc # "" THEN raw.time_utc ELSE "utcnow",
                     data_source |-> "aisstream"])

\* MarinePlanCollector.parse_message.  A raw message is [mmsi, latitude,
\* longitude, timestamp, course, speed, heading]; latitude and longitude
\* are the entries of 'position'.
ParseMarinePlan(raw) ==
    IF ~Truthy(raw.mmsi) THEN Rejected
    ELSE IF ~IsSome(raw.latitude) \/ ~IsSome(raw.longitude) THEN Rejected
    ELSE LET latitude == Val(raw.latitude)
             longitude == Val(raw.longitude)
         IN  IF ~(-90 <= latitude /\ latitude <= 90)
                  \/ ~(-180 <= longitude /\ longitude <= 180)
             THEN Rejected
             ELSE IF raw.timestamp # "" /\ ~FromIsoFormat(raw.timestamp) THEN Rejected
             ELSE VesselPositionCreate(
                    [mmsi |-> Val(raw.mmsi),
                     latitude |-> latitude,
                     longitude |-> longitude,
                     course_over_ground |-> raw.course,
                     speed_over_ground |-> raw.speed,
                     true_heading |-> raw.heading,
                     navigation_status |-> Nothing,
                     timestamp |-> IF raw.timestamp # "" THEN raw.timestamp ELSE "utcnow",
                     data_source |-> "marineplan"])

\* self.parse_message(data) of the adapter's class
ParseMessage(a, raw) ==
    CASE a = "aishub" -> ParseAISHub(raw)
      [] a = "aisstream" -> ParseAISStream(raw)
      [] a = "marineplan" -> ParseMarinePlan(raw)
      [] OTHER -> ParseDigitraffic(raw)

\* The raw messages the sources send in the run-loop model: a good one, a
\* good one of another vessel, one without MMSI, one with a latitude out of
\* range, one with a longitude out of range and one whose timestamp is not a
\* date.
GoodAISHub ==
    [MMSI |-> Some(123456789), LATITUDE |-> Some(26), LONGITUDE |-> Some(56),
     TIMESTAMP |-> "2024-05-01T12:00:00Z", COG |-> Some(45), SOG |-> Some(12),
     HEADING |-> Some(90)]

AISHubMsgs ==
    {GoodAISHub,
     [GoodAISHub EXCEPT !.MMSI = Some(987654321)],
     [GoodAISHub EXCEPT !.MMSI = Nothing],
     [GoodAISHub EXCEPT !.LATITUDE = Some(91)],
     [GoodAISHub EXCEPT !.LONGITUDE = Some(-181)],
     [GoodAISHub EXCEPT !.TIMESTAMP = "yesterday"]}

GoodDigitraffic ==
    [coordinates |-> <<56, 26>>, mmsi |-> Some(123456789),
     timestampExternal |-> "2024-05-01T12:00:00Z", cog |-> Some(45), sog |-> Some(12),
     heading |-> Some(90), navStat |-> Some(0)]

DigitrafficMsgs ==
    {GoodDigitraffic,
     [GoodDigitraffic EXCEPT !.mmsi = Some(987654321)],
     [GoodDigitraffic EXCEPT !.mmsi = Nothing],
     [GoodDigitraffic EXCEPT !.coordinates = <<56, 91>>],
     [GoodDigitraffic EXCEPT !.coordinates = <<181, 26>>],
     [GoodDigitraffic EXCEPT !.timestampExternal = "yesterday"]}

RawMsgs(a) == IF a = "aishub" THEN AISHubMsgs ELSE DigitrafficMsgs

\* the response bodies of at most n vessels
Bodies(a, n) == UNION {[1..k -> RawMsgs(a)] : k \in 0..n}

\* ------------------------------------------------------- adapter state
\* The fields of one adapter and the position of its task, as one record:
\* the operators below compute the record after a piece of code, and an
\* action commits the record its step ends with.
St(a) ==
    [is_running |-> is_running[a],
     last_request_time |-> last_request_time[a],
     request_count |-> request_count[a],
     error_count |-> error_count[a],
     pc |-> pc[a],
     wake |-> wake[a],
     received |-> received[a],
     handed |-> handed[a],
     failed |-> failed[a],
     broker |-> broker[a],
     attempts |-> attempts[a]]

Commit(a, s) ==
    /\ is_running' = [is_running EXCEPT ![a] = s.is_running]
    /\ last_request_time' = [last_request_time EXCEPT ![a] = s.last_request_time]
    /\ request_count' = [request_count EXCEPT ![a] = s.request_count]
    /\ error_count' = [error_count EXCEPT ![a] = s.error_count]
    /\ pc' = [pc EXCEPT ![a] = s.pc]
    /\ wake' = [wake EXCEPT ![a] = s.wake]
    /\ received' = [received EXCEPT ![a] = s.received]
    /\ handed' = [handed EXCEPT ![a] = s.handed]
    /\ failed' = [failed EXCEPT ![a] = s.failed]
    /\ broker' = [broker EXCEPT ![a] = s.broker]
    /\ attempts' = [attempts EXCEPT ![a] = s.attempts]

\* the 'rate_limit' entry of the source in AIS_SOURCES.  Of the four
\* sources only "aishub" has an entry in AIS_SOURCES, and that entry has no
\* 'rate_limit': the value is unset for each of them.
SourceRateLimit(a) == Nothing

\* self.rate_limit and self.min_request_interval, set in __init__
rate_limit(a) ==
    IF IsSome(SourceRateLimit(a)) THEN Val(SourceRateLimit(a)) ELSE DefaultRateLimit

min_request_interval(a) ==
    IF rate_limit(a) # 0 THEN SecondsPerMinute \div rate_limit(a) ELSE 0

\* start_collection's `finally: self.is_running = False` after the loop
\* ended without an exception (the generator finished, or `break`)
ExitRun(s) == [s EXCEPT !.is_running = FALSE, !.pc = "done"]

\* FailRun as it would be if start_collection had neither the except clause
\* nor the finally clause: the exception ends the task and nothing is set
FailRunUncaught(s) == [s EXCEPT !.pc = "done"]

\* start_collection's `except Exception: self.error_count += 1`, then finally
FailRun(s) ==
    [s EXCEPT !.error_count = @ + 1, !.is_running = FALSE, !.pc = "done"]

\* CancelRun as it would be if start_collection had no `finally`: a
\* cancelled run leaves is_running as it was
CancelRunNoFinally(s) == [s EXCEPT !.pc = "cancelled"]

\* asyncio.CancelledError thrown into the task at its await: it is no
\* Exception, so only the finally clauses run.  A task cancelled before its
\* first step never runs its body.
CancelRun(s) ==
    IF s.pc = "created" THEN [s EXCEPT !.pc = "cancelled"]
    ELSE [s EXCEPT !.is_running = FALSE, !.pc = "cancelled"]

\* collect_data after _enforce_rate_limit returned at time t.  aishub and
\* digitraffic issue the GET and await the response.  marineplan builds
\* params from `settings` first, outside the inner try: the NameError leaves
\* collect_data and is caught by start_collection.
AfterRateLimit(s, a, t) ==
    LET s1 == [s EXCEPT !.last_request_time = t]
    IN  IF a = "marineplan" THEN FailRun(s1) ELSE [s1 EXCEPT !.pc = "await_http"]

\* EnforceRateLimit as it would be without the sleep: the time is stored and
\* the call returns at once
EnforceRateLimitNoSleep(s, a, t) == AfterRateLimit(s, a, t)

\* _enforce_rate_limit called at time t: time.sleep(sleep_time) when the
\* previous call is less than min_request_interval ago
EnforceRateLimit(s, a, t) ==
    IF min_request_interval(a) > 0
       /\ t - s.last_request_time < min_request_interval(a)
    THEN [s EXCEPT !.pc = "rl_sleep",
                   !.wake = t + (min_request_interval(a) - (t - s.last_request_time))]
    ELSE AfterRateLimit(s, a, t)

\* CollectLoop as it would be if the request were issued without a call of
\* the rate limiter
CollectLoopNoLimiter(s, a, t) ==
    IF ~s.is_running THEN ExitRun(s)
    ELSE IF a = "aisstream" THEN [s EXCEPT !.pc = "await_connect", !.attempts = @ + 1]
    ELSE IF a = "marineplan" THEN FailRun([s EXCEPT !.attempts = @ + 1])
    ELSE [s EXCEPT !.pc = "await_http", !.attempts = @ + 1]

\* the head of collect_data's loop, `while self.is_running:`, at time t
CollectLoop(s, a, t) ==
    IF ~s.is_running THEN ExitRun(s)
    ELSE IF a = "aisstream" THEN [s EXCEPT !.pc = "await_connect", !.attempts = @ + 1]
    ELSE EnforceRateLimit([s EXCEPT !.attempts = @ + 1], a, t)

\* str(n) for a natural number: its decimal digits
RECURSIVE Str(_)
Str(n) == IF n < 10 THEN <<n>> ELSE Append(Str(n \div 10), n % 10)

\* data_dict: parsed_data.dict() with 'source' and 'collection_timestamp'
\* (an ISO string) added
DataDict(rec, a) == rec @@ [source |-> a, collection_timestamp |-> "isoformat"]

\* the keys of data_dict whose values are datetime objects: .dict() keeps
\* the datetime of `timestamp` (and `message_timestamp`, the same value)
DatetimeFields == {"timestamp"}

\* value_serializer, json.dumps(v).encode('utf-8'), returns: json.dumps
\* raises TypeError on a datetime
JsonSerializable(v) == DOMAIN v \cap DatetimeFields = {}

\* PublishToKafka as it would be if the exception of send were not caught:
\* it reaches start_collection, which counts it and ends the run
PublishToKafkaRaises(s, ais_data) ==
    IF ~kafka_producer THEN s
    ELSE IF JsonSerializable(ais_data)
         THEN [s EXCEPT !.broker = Append(@, [key |-> Str(ais_data.mmsi), value |-> ais_data])]
         ELSE [s EXCEPT !.failed = @ + 1, !.error_count = @ + 1, !.is_running = FALSE]

\* _publish_to_kafka(ais_data): nothing without a producer; otherwise
\* producer.send('ais_data', key=str(mmsi), value=ais_data), which
\* serializes the value and raises when the serializer raises; the exception
\* is logged and nothing else
PublishToKafka(s, ais_data) ==
    IF ~kafka_producer THEN s
    ELSE IF JsonSerializable(ais_data)
         THEN [s EXCEPT !.broker = Append(@, [key |-> Str(ais_data.mmsi), value |-> ais_data])]
         ELSE [s EXCEPT !.failed = @ + 1]

\* HandleMessage as it would be if a message that parse_message rejects
\* ended the run loop (the flag is cleared, the next checkpoint exits)
HandleMessageAbort(s, a, raw) ==
    LET parsed_data == ParseMessage(a, raw)
        s1 == [s EXCEPT !.received = Append(@, raw)]
    IN  IF parsed_data.ok
        THEN [s1 EXCEPT !.handed = Append(@, parsed_data.rec), !.request_count = @ + 1]
        ELSE [s1 EXCEPT !.error_count = @ + 1, !.is_running = FALSE]

\* HandleMessage as it would be if a new record were published ahead of
\* the records published before it
HandleMessageNewestFirst(s, a, raw) ==
    LET parsed_data == ParseMessage(a, raw)
        s1 == [s EXCEPT !.received = Append(@, raw)]
    IN  IF parsed_data.ok
        THEN [s1 EXCEPT !.handed = <<parsed_data.rec>> \o @, !.request_count = @ + 1]
        ELSE [s1 EXCEPT !.error_count = @ + 1]

\* the body of start_collection's `async for`, for one yielded message
HandleMessage(s, a, raw) ==
    LET parsed_data == ParseMessage(a, raw)
        s1 == [s EXCEPT !.received = Append(@, raw)]
    IN  IF parsed_data.ok
        THEN LET s2 == PublishToKafka([s1 EXCEPT !.handed = Append(@, parsed_data.rec)],
                                      DataDict(parsed_data.rec, a))
             IN  [s2 EXCEPT !.request_count = @ + 1]
        ELSE [s1 EXCEPT !.error_count = @ + 1]

\* `for vessel_data in data: yield vessel_data` with start_collection's loop
\* body run on every yield (there is no await in between), then the next
\* iteration of collect_data's loop
RECURSIVE YieldAll(_, _, _, _)
YieldAll(s, a, body, t) ==
    IF body = <<>> THEN CollectLoop(s, a, t)
    ELSE IF ~s.is_running THEN ExitRun(s)
    ELSE YieldAll(HandleMessage(s, a, Head(body)), a, Tail(body), t)

\* await asyncio.sleep(d)
Sleep(s, d, t) == [s EXCEPT !.pc = "sleep", !.wake = t + d]

\* OnResponse as it would be if a failed request left the loop: the
\* exception reaches start_collection
OnResponseFatal(s, a, kind, body, t) ==
    CASE kind = "ok" -> YieldAll(s, a, body, t)
      [] kind = "status" -> Sleep(s, StatusCooldown, t)
      [] OTHER -> FailRun(s)

\* OnResponse as it would be with one cooldown for every failure
OnResponseOneCooldown(s, a, kind, body, t) ==
    CASE kind = "ok" -> YieldAll(s, a, body, t)
      [] OTHER -> Sleep(s, ErrorCooldown, t)

\* collect_data resumed on the outcome of session.get: status 200 and a
\* body, another status, or an exception
OnResponse(s, a, kind, body, t) ==
    CASE kind = "ok" -> YieldAll(s, a, body, t)
      [] kind = "status" -> Sleep(s, StatusCooldown, t)
      [] OTHER -> Sleep(s, ErrorCooldown, t)

\* ------------------------------------------------------ the event loop
\* time.sleep is running: the event loop's thread is blocked
LoopBlocked == \E a \in Adapters : pc[a] = "rl_sleep"

Live(a) == pc[a] \in {"created", "await_http", "await_connect", "sleep", "rl_sleep"}

TaskDone(a) == pc[a] \in {"done", "cancelled"}

\* the task of a can be resumed
Ready(a) ==
    \/ pc[a] = "created"
    \/ pc[a] = "sleep" /\ wake[a] <= now
    \/ pc[a] \in {"await_http", "await_connect"} /\ inbox[a] # NoResp

\* asyncio.create_task puts the first step of a task on the loop's ready
\* queue, which is first in, first out: the tasks that start_all created
\* take their first steps, in the order of their creation, before any
\* callback that is scheduled later (an answer, a timer, the resumption of
\* the caller) runs.
Created == {i \in DOMAIN tasks : pc[tasks[i]] = "created"}

NextToStart == tasks[Min(Created)]

\* the caller of the supervisor can run: it has not suspended since
\* start_all, or every task has taken its first step
CallerCanRun == Created = {} \/ Created = DOMAIN tasks

MgrReady ==
    mgr_pc = "waiting" /\ (TaskDone(tasks[mgr_i]) \/ mgr_deadline <= now)

Deadlines ==
    {wake[a] : a \in {b \in Adapters : pc[b] = "sleep"}}
        \cup (IF mgr_pc = "waiting" THEN {mgr_deadline} ELSE {})

Total(f) == f["aishub"] + f["aisstream"] + f["marineplan"] + f["digitraffic"]

Handled == Total(request_count) + Total(error_count)

\* the bound of the model on the loop iterations: a step that would begin
\* one more is not taken
Bounded(a, s) == Total(attempts) - attempts[a] + s.attempts <= MaxAttempts

LoopInit ==
    /\ now = StartTime
    /\ collectors = <<>>
    /\ tasks = <<>>
    /\ mgr_is_running = FALSE
    /\ mgr_pc = "idle"
    /\ mgr_i = 0
    /\ mgr_deadline = 0
    /\ starts = 0
    /\ stop_begin = 0
    /\ stop_dur = -1
    /\ is_running = [a \in Adapters |-> FALSE]
    /\ last_request_time = [a \in Adapters |-> 0]
    /\ request_count = [a \in Adapters |-> 0]
    /\ error_count = [a \in Adapters |-> 0]
    /\ pc = [a \in Adapters |-> "none"]
    /\ wake = [a \in Adapters |-> 0]
    /\ inbox = [a \in Adapters |-> NoResp]
    /\ received = [a \in Adapters |-> <<>>]
    /\ handed = [a \in Adapters |-> <<>>]
    /\ attempts = [a \in Adapters |-> 0]
    /\ stop_requested = [a \in Adapters |-> FALSE]
    /\ kafka_producer \in BOOLEAN
    /\ failed = [a \in Adapters |-> 0]
    /\ broker = [a \in Adapters |-> <<>>]
    /\ connections = 0
    /\ subscriptions = 0
    /\ status = Nothing
    /\ orphaned = [a \in Adapters |-> 0]

\* no parser check is under way
ParseIdle ==
    /\ p_variant = "none"
    /\ p_raw = <<>>
    /\ p_out = Rejected
    /\ p_done = FALSE

Init == LoopInit /\ ParseIdle

\* ------------------------------------------------------ adapter steps
\* TaskStart as it would be if a run began with its counters at zero
TaskStartFresh(a) ==
    /\ pc[a] = "created"
    /\ a = NextToStart
    /\ ~LoopBlocked
    /\ Bounded(a, CollectLoop([St(a) EXCEPT !.is_running = TRUE], a, now))
    /\ Commit(a, CollectLoop([St(a) EXCEPT !.is_running = TRUE, !.request_count = 0,
                                           !.error_count = 0], a, now))
    /\ UNCHANGED <<now, mgrVars, inbox, stop_requested>>
    /\ UNCHANGED <<envVars, wsVars>>

\* The event loop runs the task created by start_all for the first time:
\* start_collection sets is_running and enters collect_data.
TaskStart(a) ==
    /\ pc[a] = "created"
    /\ a = NextToStart
    /\ ~LoopBlocked
    /\ Bounded(a, CollectLoop([St(a) EXCEPT !.is_running = TRUE], a, now))
    /\ Commit(a, CollectLoop([St(a) EXCEPT !.is_running = TRUE], a, now))
    /\ UNCHANGED <<now, mgrVars, inbox, stop_requested>>
    /\ UNCHANGED <<envVars, wsVars>>

\* time.sleep(sleep_time) returns and _enforce_rate_limit stores the time;
\* no other coroutine ran meanwhile
RateLimitReturn(a) ==
    /\ pc[a] = "rl_sleep"
    /\ now' = Max2(now, wake[a])
    /\ Commit(a, AfterRateLimit(St(a), a, now'))
    /\ UNCHANGED <<mgrVars, inbox, stop_requested>>
    /\ UNCHANGED <<envVars, wsVars>>

\* The source answers the pending GET: status 200, another status, or the
\* request fails (timeout, connection reset, a body that is not the expected
\* JSON).  The answer waits until the task is resumed.
ResponseArrives(a, kind) ==
    /\ pc[a] = "await_http"
    /\ inbox[a] = NoResp
    /\ inbox' = [inbox EXCEPT ![a] = kind]
    /\ UNCHANGED <<now, mgrVars, is_running, last_request_time, request_count,
                   error_count, pc, wake, received, handed, failed, broker, attempts, stop_requested>>
    /\ UNCHANGED <<envVars, wsVars>>

\* the task is resumed on the answer; body is what response.json() returns
\* when the status is 200
HandleResponse(a, body) ==
    /\ pc[a] = "await_http"
    /\ inbox[a] # NoResp
    /\ ~LoopBlocked
    /\ Created = {}
    /\ Len(body) <= MaxCount - Handled
    /\ inbox[a] # "ok" => body = <<>>
    /\ Bounded(a, OnResponse(St(a), a, inbox[a], body, now))
    /\ Commit(a, OnResponse(St(a), a, inbox[a], body, now))
    /\ inbox' = [inbox EXCEPT ![a] = NoResp]
    /\ UNCHANGED <<now, mgrVars, stop_requested>>
    /\ UNCHANGED <<envVars, wsVars>>

\* websockets.connect finishes: with a connection or with an exception
ConnectCompletes(a, kind) ==
    /\ pc[a] = "await_connect"
    /\ inbox[a] = NoResp
    /\ inbox' = [inbox EXCEPT ![a] = kind]
    /\ UNCHANGED <<now, mgrVars, is_running, last_request_time, request_count,
                   error_count, pc, wake, received, handed, failed, broker, attempts, stop_requested>>
    /\ UNCHANGED <<envVars, wsVars>>

\* HandleConnect as it would be if the end of a connection led straight
\* back to `while self.is_running:` and the next connect
HandleConnectNoCooldown(a) ==
    /\ pc[a] = "await_connect"
    /\ inbox[a] # NoResp
    /\ ~LoopBlocked
    /\ Created = {}
    /\ Bounded(a, CollectLoop(St(a), a, now))
    /\ Commit(a, CollectLoop(St(a), a, now))
    /\ inbox' = [inbox EXCEPT ![a] = NoResp]
    /\ connections' = IF inbox[a] = "connected" THEN connections + 1 ELSE connections
    /\ UNCHANGED <<now, mgrVars, stop_requested, subscriptions>>
    /\ UNCHANGED envVars

\* AISStreamCollector.collect_data resumed on the outcome of the connect.
\* With a connection, building the subscription evaluates `settings`
\* (l. 281): the NameError is raised before websocket.send (l. 290), so no
\* frame is sent; it closes the connection and is caught by `except
\* Exception`, as the failed connect is; both end in asyncio.sleep(30).
HandleConnect(a) ==
    /\ pc[a] = "await_connect"
    /\ inbox[a] # NoResp
    /\ ~LoopBlocked
    /\ Created = {}
    /\ Commit(a, Sleep(St(a), ErrorCooldown, now))
    /\ inbox' = [inbox EXCEPT ![a] = NoResp]
    /\ connections' = IF inbox[a] = "connected" THEN connections + 1 ELSE connections
    /\ UNCHANGED <<now, mgrVars, stop_requested, subscriptions>>
    /\ UNCHANGED envVars

\* asyncio.sleep is over: back to `while self.is_running:`
SleepWake(a) ==
    /\ pc[a] = "sleep"
    /\ wake[a] <= now
    /\ ~LoopBlocked
    /\ Created = {}
    /\ Bounded(a, CollectLoop(St(a), a, now))
    /\ Commit(a, CollectLoop(St(a), a, now))
    /\ UNCHANGED <<now, mgrVars, inbox, stop_requested>>
    /\ UNCHANGED <<envVars, wsVars>>

\* Nothing is ready to run: the event loop sleeps until its next timer.
Tick ==
    /\ ~LoopBlocked
    /\ \A a \in Adapters : ~Ready(a)
    /\ ~MgrReady
    /\ Deadlines # {}
    /\ now' = Min(Deadlines)
    /\ UNCHANGED <<mgrVars, is_running, last_request_time, request_count, error_count,
                   pc, wake, inbox, received, handed, failed, broker, attempts, stop_requested>>
    /\ UNCHANGED <<envVars, wsVars>>

\* ---------------------------------------------------- the supervisor
\* add_collector, for a source name not yet registered
AddCollector(a) ==
    /\ mgr_pc = "idle"
    /\ ~LoopBlocked
    /\ CallerCanRun
    /\ Len(collectors) < MaxCollectors
    /\ a \notin Range(collectors)
    /\ collectors' = Append(collectors, a)
    /\ UNCHANGED <<now, tasks, mgr_is_running, mgr_pc, mgr_i, mgr_deadline, starts,
                   stop_begin, stop_dur, is_running, last_request_time, request_count,
                   error_count, pc, wake, inbox, received, handed, failed, broker, attempts, stop_requested>>
    /\ UNCHANGED <<envVars, wsVars>>

\* StartAll as it would be if start_all awaited each start_collection in
\* turn: the first adapter runs, and start_all returns when that run ends
StartAllAwaitsEach ==
    /\ mgr_pc = "idle"
    /\ ~LoopBlocked
    /\ tasks = <<>>
    /\ starts < MaxStarts
    /\ starts' = starts + 1
    /\ mgr_is_running' = TRUE
    /\ tasks' = IF collectors = <<>> THEN <<>> ELSE <<Head(collectors)>>
    /\ mgr_pc' = IF collectors = <<>> THEN "idle" ELSE "starting"
    /\ pc' = [a \in Adapters |->
                 IF collectors # <<>> /\ a = Head(collectors) THEN "created" ELSE pc[a]]
    /\ UNCHANGED <<now, collectors, mgr_i, mgr_deadline, stop_begin, stop_dur,
                   is_running, last_request_time, request_count, error_count, wake,
                   inbox, received, handed, failed, broker, attempts, stop_requested>>
    /\ UNCHANGED <<envVars, wsVars>>

\* StartAll as it would be if start_all reset the counters of the
\* collectors it starts
StartAllResetsCounters ==
    /\ mgr_pc = "idle"
    /\ ~LoopBlocked
    /\ tasks = <<>>
    /\ starts < MaxStarts
    /\ starts' = starts + 1
    /\ mgr_is_running' = TRUE
    /\ tasks' = collectors
    /\ pc' = [a \in Adapters |-> IF a \in Range(collectors) THEN "created" ELSE pc[a]]
    /\ stop_requested' = [a \in Adapters |->
                             IF a \in Range(collectors) THEN FALSE ELSE stop_requested[a]]
    /\ request_count' = [a \in Adapters |->
                            IF a \in Range(collectors) THEN 0 ELSE request_count[a]]
    /\ error_count' = [a \in Adapters |->
                          IF a \in Range(collectors) THEN 0 ELSE error_count[a]]
    /\ UNCHANGED <<now, collectors, mgr_pc, mgr_i, mgr_deadline, stop_begin, stop_dur,
                   is_running, last_request_time, wake,
                   inbox, received, handed, failed, broker, attempts>>
    /\ UNCHANGED <<envVars, wsVars>>

\* start_all: one asyncio.create_task per registered collector; no await
StartAll ==
    /\ mgr_pc = "idle"
    /\ ~LoopBlocked
    /\ tasks = <<>>
    /\ starts < MaxStarts
    /\ starts' = starts + 1
    /\ mgr_is_running' = TRUE
    /\ tasks' = collectors
    /\ pc' = [a \in Adapters |-> IF a \in Range(collectors) THEN "created" ELSE pc[a]]
    /\ stop_requested' = [a \in Adapters |->
                             IF a \in Range(collectors) THEN FALSE ELSE stop_requested[a]]
    /\ UNCHANGED <<now, collectors, mgr_pc, mgr_i, mgr_deadline, stop_begin, stop_dur,
                   is_running, last_request_time, request_count, error_count, wake,
                   inbox, received, handed, failed, broker, attempts>>
    /\ UNCHANGED <<envVars, wsVars>>

\* collector.stop_collection(), called by the owner of the supervisor
StopCollection(a) ==
    /\ mgr_pc = "idle"
    /\ ~LoopBlocked
    /\ CallerCanRun
    /\ a \in Range(collectors)
    /\ is_running' = [is_running EXCEPT ![a] = FALSE]
    /\ stop_requested' = [stop_requested EXCEPT ![a] = @ \/ Live(a)]
    /\ UNCHANGED <<now, mgrVars, last_request_time, request_count, error_count, pc,
                   wake, inbox, received, handed, failed, broker, attempts>>
    /\ UNCHANGED <<envVars, wsVars>>

\* stop_all up to its first await: stop_collection on every collector, then
\* wait_for on the first task; with no task it clears and returns at once
StopAllCall ==
    /\ mgr_pc = "idle"
    /\ ~LoopBlocked
    /\ CallerCanRun
    /\ mgr_is_running' = FALSE
    /\ is_running' = [a \in Adapters |->
                         IF a \in Range(collectors) THEN FALSE ELSE is_running[a]]
    /\ stop_requested' = [a \in Adapters |->
                             IF a \in Range(collectors) /\ Live(a)
                             THEN TRUE ELSE stop_requested[a]]
    /\ stop_begin' = now
    /\ IF tasks = <<>>
       THEN /\ stop_dur' = 0
            /\ UNCHANGED <<mgr_pc, mgr_i, mgr_deadline>>
       ELSE /\ mgr_pc' = "waiting"
            /\ mgr_i' = 1
            /\ mgr_deadline' = now + StopTimeout
            /\ UNCHANGED stop_dur
    /\ UNCHANGED <<now, collectors, tasks, starts, last_request_time, request_count,
                   error_count, pc, wake, inbox, received, handed, failed, broker, attempts>>
    /\ UNCHANGED <<envVars, wsVars>>

\* stop_all after the wait_for on tasks[mgr_i] is over: the next wait_for,
\* or self.tasks.clear() and the return
StopAllNext ==
    IF mgr_i < Len(tasks)
    THEN /\ mgr_i' = mgr_i + 1
         /\ mgr_deadline' = now + StopTimeout
         /\ UNCHANGED <<mgr_pc, tasks, stop_dur>>
    ELSE /\ mgr_pc' = "idle"
         /\ mgr_i' = 0
         /\ mgr_deadline' = 0
         /\ tasks' = <<>>
         /\ stop_dur' = now - stop_begin

\* wait_for returns: the task has finished
WaitForDone ==
    /\ mgr_pc = "waiting"
    /\ ~LoopBlocked
    /\ Created = {}
    /\ TaskDone(tasks[mgr_i])
    /\ StopAllNext
    /\ UNCHANGED <<now, collectors, mgr_is_running, starts, stop_begin, is_running,
                   last_request_time, request_count, error_count, pc, wake, inbox,
                   received, handed, failed, broker, attempts, stop_requested>>
    /\ UNCHANGED <<envVars, wsVars>>

\* wait_for times out: it cancels the task, waits until the task has ended
\* and raises TimeoutError; stop_all logs a warning and calls task.cancel()
WaitForTimeout ==
    /\ mgr_pc = "waiting"
    /\ ~LoopBlocked
    /\ Created = {}
    /\ ~TaskDone(tasks[mgr_i])
    /\ mgr_deadline <= now
    /\ Commit(tasks[mgr_i], CancelRun(St(tasks[mgr_i])))
    /\ inbox' = [inbox EXCEPT ![tasks[mgr_i]] = NoResp]
    /\ StopAllNext
    /\ UNCHANGED <<now, collectors, mgr_is_running, starts, stop_begin, stop_requested>>
    /\ UNCHANGED <<envVars, wsVars>>

Responses == {"ok", "status", "error"}

ConnectOutcomes == {"connected", "error"}

Next ==
    \/ \E a \in Adapters : TaskStart(a)
    \/ \E a \in Adapters : RateLimitReturn(a)
    \/ \E a \in Adapters : \E kind \in Responses : ResponseArrives(a, kind)
    \/ \E a \in Adapters : \E body \in Bodies(a, MaxBatch) : HandleResponse(a, body)
    \/ \E a \in Adapters : \E kind \in ConnectOutcomes : ConnectCompletes(a, kind)
    \/ \E a \in Adapters : HandleConnect(a)
    \/ \E a \in Adapters : SleepWake(a)
    \/ Tick
    \/ \E a \in Adapters : AddCollector(a)
    \/ StartAll
    \/ \E a \in Adapters : StopCollection(a)
    \/ StopAllCall
    \/ WaitForDone
    \/ WaitForTimeout

Spec == Init /\ [][Next]_vars

\* The event loop runs every callback that is ready, and its clock advances;
\* the sources, and the caller of the supervisor, owe nothing.
AdapterStep(a) ==
    \/ TaskStart(a)
    \/ RateLimitReturn(a)
    \/ \E body \in Bodies(a, LiveBatch) : HandleResponse(a, body)
    \/ HandleConnect(a)
    \/ SleepWake(a)

\* The steps of the program when every list of vessels a source answers has
\* at most LiveBatch messages.
LiveNext ==
    \/ \E a \in Adapters : TaskStart(a)
    \/ \E a \in Adapters : RateLimitReturn(a)
    \/ \E a \in Adapters : \E kind \in Responses : ResponseArrives(a, kind)
    \/ \E a \in Adapters : \E body \in Bodies(a, LiveBatch) : HandleResponse(a, body)
    \/ \E a \in Adapters : \E kind \in ConnectOutcomes : ConnectCompletes(a, kind)
    \/ \E a \in Adapters : HandleConnect(a)
    \/ \E a \in Adapters : SleepWake(a)
    \/ Tick
    \/ \E a \in Adapters : AddCollector(a)
    \/ StartAll
    \/ \E a \in Adapters : StopCollection(a)
    \/ StopAllCall
    \/ WaitForDone
    \/ WaitForTimeout

LiveSpec ==
    /\ Init /\ [][LiveNext]_vars
    /\ WF_vars(Tick)
    /\ WF_vars(WaitForDone \/ WaitForTimeout)
    /\ \A a \in Adapters : WF_vars(AdapterStep(a))

\* ------------------------------------------- start_all called again
\* Spec follows a supervisor whose owner calls start_all only when no task
\* is registered.  start_all itself has no such condition: called while
\* self.tasks holds tasks, it creates a new task for every collector and
\* stores it under the collector's name, and the task stored there before
\* is dropped from self.tasks and goes on running.  RestartSpec adds this
\* call to the steps of LiveNext (which tasks exist does not depend on the
\* vessels in the answers).  Of a dropped task it keeps only that it exists:
\* the task can end once the collector's is_running is false, at the head of
\* its loop.
StartAllAgain ==
    /\ mgr_pc = "idle"
    /\ ~LoopBlocked
    /\ CallerCanRun
    /\ tasks # <<>>
    /\ starts < MaxStarts
    /\ starts' = starts + 1
    /\ mgr_is_running' = TRUE
    /\ tasks' = collectors
    /\ orphaned' = [a \in Adapters |->
                       IF a \in Range(tasks) /\ Live(a) THEN orphaned[a] + 1
                       ELSE orphaned[a]]
    /\ pc' = [a \in Adapters |-> IF a \in Range(collectors) THEN "created" ELSE pc[a]]
    /\ inbox' = [a \in Adapters |-> IF a \in Range(collectors) THEN NoResp ELSE inbox[a]]
    /\ stop_requested' = [a \in Adapters |->
                             IF a \in Range(collectors) THEN FALSE ELSE stop_requested[a]]
    /\ UNCHANGED <<now, collectors, mgr_pc, mgr_i, mgr_deadline, stop_begin, stop_dur,
                   is_running, last_request_time, request_count, error_count, wake,
                   received, handed, failed, broker, attempts>>
    /\ UNCHANGED <<kafka_producer, p_variant, p_raw, p_out, p_done, status, wsVars>>

\* a dropped task of a finds is_running false and ends
OrphanEnds(a) ==
    /\ orphaned[a] > 0
    /\ ~is_running[a]
    /\ ~LoopBlocked
    /\ orphaned' = [orphaned EXCEPT ![a] = @ - 1]
    /\ UNCHANGED <<now, mgrVars, is_running, last_request_time, request_count,
                   error_count, pc, wake, inbox, received, handed, attempts,
                   stop_requested, kafka_producer, failed, broker, wsVars,
                   p_variant, p_raw, p_out, p_done, status>>

RestartNext ==
    \/ LiveNext
    \/ StartAllAgain
    \/ \E a \in Adapters : OrphanEnds(a)

RestartSpec == Init /\ [][RestartNext]_vars

\* ---------------------------------------------------- the parser check
\* parse_message is a pure function of the raw message.  The messages it
\* is applied to: the vessel of the run-loop model with its position, its
\* heading and its navigation status replaced by the values below (Nothing:
\* the key is missing), and the messages of the run-loop model.
Lats == {-91, -90, 0, 26, 90, 91}

Lons == {-181, -180, 0, 56, 180, 181}

Opt(S) == {Nothing} \cup {Some(x) : x \in S}

Headings == Opt({0, 90, 359, 360, 511})

NavCodes == Opt(0..MaxNavCode)

\* identifiers: missing, 0, five digits, the least and the greatest of nine
\* digits, ten digits
Mmsis == Opt({0, 12345, 100000000, 999999999, 1000000000})

GoodAISStream ==
    [Message |-> TRUE, UserID |-> Some(123456789), Latitude |-> Some(26),
     Longitude |-> Some(56), time_utc |-> "2024-05-01T12:00:00Z",
     CourseOverGround |-> Some(45), SpeedOverGround |-> Some(12),
     TrueHeading |-> Some(90), NavigationalStatus |-> Some(0)]

GoodMarinePlan ==
    [mmsi |-> Some(123456789), latitude |-> Some(26), longitude |-> Some(56),
     timestamp |-> "2024-05-01T12:00:00Z", course |-> Some(45), speed |-> Some(12),
     heading |-> Some(90)]

\* geometry.coordinates of a feature: empty, one number, [lon, lat]
Coordinates ==
    {<<>>} \cup {<<lo>> : lo \in Lons} \cup {<<lo, la>> : lo \in Lons, la \in Lats}

\* the feature of the specification's scenario, in whole degrees and knots
ScenarioFeature ==
    [coordinates |-> <<56, 26>>, mmsi |-> Some(123456789), timestampExternal |-> "",
     cog |-> Some(45), sog |-> Some(12), heading |-> Nothing, navStat |-> Some(0)]

Inputs(a) ==
    CASE a = "aishub" ->
           AISHubMsgs
           \cup {[GoodAISHub EXCEPT !.LATITUDE = la, !.LONGITUDE = lo, !.HEADING = h] :
                    la \in Opt(Lats), lo \in Opt(Lons), h \in Headings}
           \cup {[GoodAISHub EXCEPT !.TIMESTAMP = t] : t \in Timestamps}
           \cup {[GoodAISHub EXCEPT !.MMSI = m] : m \in Mmsis}
      [] a = "aisstream" ->
           {[GoodAISStream EXCEPT !.Latitude = la, !.Longitude = lo, !.TrueHeading = h] :
                    la \in Opt(Lats), lo \in Opt(Lons), h \in Headings}
           \cup {[GoodAISStream EXCEPT !.NavigationalStatus = n] : n \in NavCodes}
           \cup {[GoodAISStream EXCEPT !.time_utc = t] : t \in Timestamps}
           \cup {[GoodAISStream EXCEPT !.Message = FALSE]}
           \cup {[GoodAISStream EXCEPT !.UserID = m] : m \in Mmsis}
      [] a = "marineplan" ->
           {[GoodMarinePlan EXCEPT !.latitude = la, !.longitude = lo, !.heading = h] :
                    la \in Opt(Lats), lo \in Opt(Lons), h \in Headings}
           \cup {[GoodMarinePlan EXCEPT !.timestamp = t] : t \in Timestamps}
           \cup {[GoodMarinePlan EXCEPT !.mmsi = m] : m \in Mmsis}
      [] OTHER ->
           DigitrafficMsgs \cup {ScenarioFeature}
           \cup {[GoodDigitraffic EXCEPT !.coordinates = c, !.heading = h] :
                    c \in Coordinates, h \in Headings}
           \cup {[GoodDigitraffic EXCEPT !.navStat = n] : n \in NavCodes}
           \cup {[GoodDigitraffic EXCEPT !.timestampExternal = t] : t \in Timestamps}
           \cup {[GoodDigitraffic EXCEPT !.mmsi = m] : m \in Mmsis}

ParseInit ==
    /\ LoopInit
    /\ p_variant \in Adapters
    /\ p_raw \in Inputs(p_variant)
    /\ p_out = Rejected
    /\ p_done = FALSE

\* one call of parse_message
ParseCall ==
    /\ ~p_done
    /\ p_variant \in Adapters
    /\ p_out' = ParseMessage(p_variant, p_raw)
    /\ p_done' = TRUE
    /\ UNCHANGED <<now, mgrVars, is_running, last_request_time, request_count,
                   error_count, pc, wake, inbox, received, handed, attempts,
                   stop_requested, kafka_producer, failed, broker, wsVars,
                   p_variant, p_raw, status, orphaned>>

ParseSpec == ParseInit /\ [][ParseCall]_vars

\* ---------------------------------------------------- the status check
\* get_status is a pure function of the registered collectors' fields.  It
\* is applied to a supervisor with at most MaxCollectors collectors, each
\* with any is_running and any counters up to MaxCount.
Registered == {c \in UNION {[1..k -> Adapters] : k \in 0..MaxCollectors} :
                  \A i, j \in DOMAIN c : i # j => c[i] # c[j]}

\* x / y of two integers, kept as the pair of numerator and denominator
Quotient(x, y) == <<x, y>>

\* get_status as it would be if it divided by request_count itself
GetStatusNoMax ==
    [name \in Range(collectors) |->
        [is_running |-> is_running[name],
         request_count |-> request_count[name],
         error_count |-> error_count[name],
         error_rate |-> Quotient(error_count[name], request_count[name])]]

\* the mapping AISCollectorManager.get_status returns
get_status ==
    [name \in Range(collectors) |->
        [is_running |-> is_running[name],
         request_count |-> request_count[name],
         error_count |-> error_count[name],
         error_rate |-> Quotient(error_count[name], Max2(request_count[name], 1))]]

StatusInit ==
    /\ now = StartTime
    /\ collectors \in Registered
    /\ tasks = <<>>
    /\ mgr_is_running = FALSE
    /\ mgr_pc = "idle"
    /\ mgr_i = 0
    /\ mgr_deadline = 0
    /\ starts = 0
    /\ stop_begin = 0
    /\ stop_dur = -1
    /\ is_running \in {f \in [Adapters -> BOOLEAN] :
                          \A a \in Adapters \ Range(collectors) : ~f[a]}
    /\ last_request_time = [a \in Adapters |-> 0]
    /\ request_count \in {f \in [Adapters -> 0..MaxCount] :
                             \A a \in Adapters \ Range(collectors) : f[a] = 0}
    /\ error_count \in {f \in [Adapters -> 0..MaxCount] :
                           \A a \in Adapters \ Range(collectors) : f[a] = 0}
    /\ pc = [a \in Adapters |-> "none"]
    /\ wake = [a \in Adapters |-> 0]
    /\ inbox = [a \in Adapters |-> NoResp]
    /\ received = [a \in Adapters |-> <<>>]
    /\ handed = [a \in Adapters |-> <<>>]
    /\ attempts = [a \in Adapters |-> 0]
    /\ stop_requested = [a \in Adapters |-> FALSE]
    /\ kafka_producer = FALSE
    /\ failed = [a \in Adapters |-> 0]
    /\ broker = [a \in Adapters |-> <<>>]
    /\ connections = 0
    /\ subscriptions = 0
    /\ status = Nothing
    /\ orphaned = [a \in Adapters |-> 0]
    /\ ParseIdle

\* one call of get_status
GetStatus ==
    /\ status' = Some(get_status)
    /\ UNCHANGED <<now, mgrVars, is_running, last_request_time, request_count,
                   error_count, pc, wake, inbox, received, handed, attempts,
                   stop_requested, kafka_producer, failed, broker, wsVars,
                   p_variant, p_raw, p_out, p_done, orphaned>>

StatusSpec == StatusInit /\ [][GetStatus]_vars

\* ------------------------------------------------------------- claims
PollingAdapters == {"aishub", "marineplan", "digitraffic"}

\* the task of a is suspended in one of its waits
Waiting(a) == pc[a] \in {"rl_sleep", "sleep", "await_http", "await_connect"}

\* the event loop can resume the task of a
Resumable(a) == Ready(a) /\ ~LoopBlocked

\* C1: once stop_all has returned, it took less than two timeouts: its
\* duration is bounded by T plus a small constant, not by a multiple of T.
C1_StopAllWithinTimeout == stop_dur < 2 * StopTimeout

\* C2: when stop_all has returned (until the next start_all), no registered
\* adapter has is_running set, whether its run loop ended by itself or was
\* cancelled.
C2_AllStoppedAfterStopAll ==
    (mgr_pc = "idle" /\ tasks = <<>> /\ stop_dur >= 0)
        => \A a \in Range(collectors) : ~is_running[a]

C2_Witness ==
    /\ mgr_pc = "idle" /\ tasks = <<>> /\ stop_dur >= 0
    /\ \E a, b \in Range(collectors) : pc[a] = "cancelled" /\ pc[b] = "done"

\* C3: while one adapter waits, every other adapter that is ready (its task
\* was just launched, its answer has arrived, its cooldown is over) can be
\* resumed.
C3_NoAdapterBlocksAnother ==
    \A a, b \in Adapters :
        (a # b /\ Waiting(a) /\ Ready(b)) => Resumable(b)

\* C4: a start_all step leaves one task per registered adapter that has not
\* run yet, runs no adapter code, takes no time and leaves the caller free:
\* it has not waited for any start_collection.
C4_StartAllReturnsImmediately ==
    [][starts' # starts =>
          /\ mgr_pc' = "idle"
          /\ now' = now
          /\ tasks' = collectors
          /\ \A a \in Range(collectors) : pc'[a] = "created"
          /\ is_running' = is_running
          /\ attempts' = attempts]_vars

C4_Witness ==
    /\ mgr_pc = "idle" /\ stop_dur = -1
    /\ Len(tasks) >= 2
    /\ \A a \in Range(tasks) : is_running[a] /\ pc[a] \in {"await_http", "await_connect"}

\* C5: a failed request never ends the run loop of a polling adapter: the
\* task goes to its cooldown with is_running untouched, and from a cooldown
\* with is_running set the adapter issues another request, unless it is
\* stopped (or the model's bound on loop iterations is reached).
C5_FailuresRetried ==
    /\ [][\A a \in PollingAdapters :
             (pc[a] = "await_http" /\ inbox[a] \in {"status", "error"}
                  /\ pc'[a] \notin {"await_http", "cancelled"})
                 => (pc'[a] = "sleep" /\ is_running'[a] = is_running[a])]_vars
    /\ \A a \in PollingAdapters :
           (pc[a] = "sleep" /\ is_running[a])
               ~> (pc[a] = "await_http" \/ ~is_running[a]
                      \/ Total(attempts) >= MaxAttempts)

C5_Witness ==
    \E a \in PollingAdapters :
        /\ Len(collectors) = 1 /\ stop_dur = -1
        /\ pc[a] = "await_http" /\ attempts[a] = 2 /\ is_running[a]
        /\ last_request_time[a] = now /\ wake[a] = now
        /\ now = StartTime + ErrorCooldown

\* C6: the step that resumes a polling adapter on a non-200 status hands
\* nothing to the publisher, leaves request_count and error_count as they
\* are and starts a cooldown of 60 s; and a task leaves a cooldown for its
\* next request only when the cooldown is over.
C6_Non200Cooldown ==
    [][\A a \in PollingAdapters :
          /\ (pc[a] = "await_http" /\ inbox[a] = "status" /\ pc'[a] # "await_http")
                 => /\ handed'[a] = handed[a]
                    /\ request_count'[a] = request_count[a]
                    /\ error_count'[a] = error_count[a]
                    /\ pc'[a] \in {"sleep", "cancelled"}
                    /\ pc'[a] = "sleep" => wake'[a] = now + 60
          /\ (pc[a] = "sleep" /\ pc'[a] \in {"await_http", "rl_sleep"})
                 => now >= wake[a]]_vars

C6_Witness ==
    \E a \in PollingAdapters :
        /\ Len(collectors) = 1 /\ stop_dur = -1
        /\ pc[a] = "await_http" /\ attempts[a] = 2
        /\ last_request_time[a] = StartTime + 60
        /\ received[a] = <<>> /\ error_count[a] = 0 /\ request_count[a] = 0

\* the messages of body that parse_message rejects / accepts
RejectedIn(a, body) == {i \in DOMAIN body : ~ParseMessage(a, body[i]).ok}

RECURSIVE AcceptedRecords(_, _)
AcceptedRecords(a, body) ==
    IF body = <<>> THEN <<>>
    ELSE IF ParseMessage(a, Head(body)).ok
         THEN <<ParseMessage(a, Head(body)).rec>> \o AcceptedRecords(a, Tail(body))
         ELSE AcceptedRecords(a, Tail(body))

\* C7: when a running adapter is resumed on a body, each message of the body
\* that parse rejects adds one to error_count and nothing to request_count or
\* to the publisher, the messages after it are handled all the same, and the
\* adapter is still running afterwards.
C7_BadMessageDroppedAndCounted ==
    [][\A a \in Adapters : \A body \in Bodies(a, MaxBatch) :
          (is_running[a] /\ inbox[a] = "ok" /\ HandleResponse(a, body))
              => /\ error_count'[a] = error_count[a] + Cardinality(RejectedIn(a, body))
                 /\ request_count'[a] =
                        request_count[a] + Len(body) - Cardinality(RejectedIn(a, body))
                 /\ handed'[a] = handed[a] \o AcceptedRecords(a, body)
                 /\ received'[a] = received[a] \o body
                 /\ is_running'[a] /\ Live(a)']_vars

C7_Witness ==
    \E a \in Adapters :
        /\ Len(received[a]) = 2
        /\ ~ParseMessage(a, received[a][1]).ok /\ ParseMessage(a, received[a][2]).ok
        /\ error_count[a] = 1 /\ request_count[a] = 1 /\ Len(handed[a]) = 1
        /\ is_running[a] /\ Live(a)

OutOfRange(lat, lon) == lat < -90 \/ lat > 90 \/ lon < -180 \/ lon > 180

\* the latitude and the longitude a raw message of adapter a carries
RawLat(a, raw) ==
    IF a = "aishub" THEN (IF IsSome(raw.LATITUDE) THEN Val(raw.LATITUDE) ELSE 0)
    ELSE (IF Len(raw.coordinates) >= 2 THEN raw.coordinates[2] ELSE 0)

RawLon(a, raw) ==
    IF a = "aishub" THEN (IF IsSome(raw.LONGITUDE) THEN Val(raw.LONGITUDE) ELSE 0)
    ELSE (IF Len(raw.coordinates) >= 1 THEN raw.coordinates[1] ELSE 0)

NOutOfRange(a) ==
    Cardinality({i \in DOMAIN received[a] :
                    OutOfRange(RawLat(a, received[a][i]), RawLon(a, received[a][i]))})

\* C8: no record handed to the publisher has a latitude outside [-90,90] or
\* a longitude outside [-180,180], and every message received with such a
\* position has been counted in error_count and not in request_count.
C8_NoOutOfRangePublished ==
    \A a \in Adapters :
        /\ \A i \in DOMAIN handed[a] :
               ~OutOfRange(handed[a][i].latitude, handed[a][i].longitude)
        /\ error_count[a] >= NOutOfRange(a)
        /\ Len(handed[a]) <= Len(received[a]) - NOutOfRange(a)
        /\ request_count[a] = Len(handed[a])

C8_Witness ==
    \E a \in Adapters :
        /\ NOutOfRange(a) = 1 /\ Len(received[a]) = 2
        /\ Len(handed[a]) = 1 /\ error_count[a] = 1

\* C9: once stop_collection has been called on an adapter whose task
\* start_all has launched, is_running stays cleared as long as the task is
\* alive, so that the run loop finds it cleared at its next checkpoint.
C9_StopObservedAtNextCheckpoint ==
    \A a \in Adapters : (stop_requested[a] /\ Live(a)) => ~is_running[a]

\* _enforce_rate_limit of a returns in this step
RateLimiterReturns(a) ==
    /\ a \in PollingAdapters
    /\ \/ pc[a] = "rl_sleep" /\ pc'[a] # "rl_sleep"
       \/ attempts'[a] = attempts[a] + 1 /\ pc'[a] # "rl_sleep"

\* C10: when the rate limiter of an adapter with rate_limit R > 0 returns, at
\* least 60/R seconds have passed since its previous return, and
\* last_request_time is the time of the return.
C10_RateLimiterSpacing ==
    [][\A a \in Adapters :
          (RateLimiterReturns(a) /\ rate_limit(a) > 0)
              => /\ last_request_time'[a] = now'
                 /\ (now' - last_request_time[a]) * rate_limit(a) >= SecondsPerMinute]_vars

C10_Witness ==
    \E a \in PollingAdapters :
        /\ attempts[a] = 2 /\ pc[a] = "await_http"
        /\ wake[a] = now /\ last_request_time[a] = now
        /\ now = StartTime + SecondsPerMinute \div rate_limit(a)

\* C11: every connection the streaming adapter has opened has had exactly
\* one subscription frame sent on it.
C11_OneSubscriptionPerConnection == subscriptions = connections

TakenInStep(a) == SubSeq(received'[a], Len(received[a]) + 1, Len(received'[a]))

\* C13: a step of the run loop in which a publish fails leaves the adapter
\* running at its next request, and the messages taken in the step after
\* the failed one are handled: every accepted one is handed on and counted.
C13_PublishFailureDoesNotStop ==
    [][\A a \in Adapters :
          failed'[a] > failed[a]
              => /\ is_running'[a] /\ Live(a)'
                 /\ error_count'[a] =
                        error_count[a] + Cardinality(RejectedIn(a, TakenInStep(a)))
                 /\ handed'[a] = handed[a] \o AcceptedRecords(a, TakenInStep(a))
                 /\ request_count'[a] =
                        request_count[a] + Len(AcceptedRecords(a, TakenInStep(a)))]_vars

C13_Witness ==
    \E a \in Adapters :
        /\ failed[a] = 2 /\ Len(received[a]) = 2 /\ request_count[a] = 2
        /\ is_running[a] /\ Live(a)

\* C14: every failed publish is counted in the adapter's failure
\* statistics: error_count holds the rejected messages and the failed
\* publishes.
C14_DeliveryFailuresCounted ==
    \A a \in Adapters :
        error_count[a] >= failed[a] + Cardinality(RejectedIn(a, received[a]))

\* C15: every record counted in request_count was handed to the publisher
\* and is one message of the broker, in order, keyed by str(mmsi).
C15_OneBrokerMessagePerRecord ==
    \A a \in Adapters :
        /\ request_count[a] = Len(handed[a])
        /\ Len(broker[a]) = Len(handed[a])
        /\ \A i \in DOMAIN broker[a] : broker[a][i].key = Str(handed[a][i].mmsi)

\* the position, the heading and the rest of what a raw message of adapter
\* a carries, under the adapter's own keys
InLat(a, raw) ==
    CASE a = "aishub" -> raw.LATITUDE
      [] a = "aisstream" -> raw.Latitude
      [] a = "marineplan" -> raw.latitude
      [] OTHER -> IF Len(raw.coordinates) >= 2 THEN Some(raw.coordinates[2]) ELSE Nothing

InLon(a, raw) ==
    CASE a = "aishub" -> raw.LONGITUDE
      [] a = "aisstream" -> raw.Longitude
      [] a = "marineplan" -> raw.longitude
      [] OTHER -> IF Len(raw.coordinates) >= 2 THEN Some(raw.coordinates[1]) ELSE Nothing

InHeading(a, raw) ==
    CASE a = "aishub" -> raw.HEADING
      [] a = "aisstream" -> raw.TrueHeading
      [] OTHER -> raw.heading

InMmsi(a, raw) ==
    CASE a = "aishub" -> raw.MMSI
      [] a = "aisstream" -> IF raw.Message THEN raw.UserID ELSE Nothing
      [] OTHER -> raw.mmsi

InTimestamp(a, raw) ==
    CASE a = "aishub" -> raw.TIMESTAMP
      [] a = "aisstream" -> raw.time_utc
      [] a = "marineplan" -> raw.timestamp
      [] OTHER -> raw.timestampExternal

HasPosition(a, raw) == IsSome(InLat(a, raw)) /\ IsSome(InLon(a, raw))

\* valid in everything but the position: an identifier, a timestamp that is
\* a date or missing, a heading in [0,360) or missing
ValidButPosition(a, raw) ==
    /\ Truthy(InMmsi(a, raw))
    /\ InTimestamp(a, raw) = "" \/ FromIsoFormat(InTimestamp(a, raw))
    /\ IsSome(InHeading(a, raw)) =>
           (0 <= Val(InHeading(a, raw)) /\ Val(InHeading(a, raw)) < 360)

\* C16: for each of the four adapters and each raw message that carries a
\* latitude and a longitude and is valid otherwise, parse_message returns a
\* record with exactly that latitude and that longitude when the pair lies
\* in [-90,90] x [-180,180], and returns None when it lies outside.
C16_PositionCarriedOrRejected ==
    (p_done /\ HasPosition(p_variant, p_raw) /\ ValidButPosition(p_variant, p_raw)) =>
        LET lat == Val(InLat(p_variant, p_raw))
            lon == Val(InLon(p_variant, p_raw))
        IN  IF OutOfRange(lat, lon)
            THEN ~p_out.ok
            ELSE /\ p_out.ok
                 /\ p_out.rec.latitude = lat
                 /\ p_out.rec.longitude = lon

\* a message of the streaming source with latitude 26 and longitude 56 has
\* been parsed
C16_Witness ==
    /\ p_done
    /\ p_variant = "aisstream"
    /\ p_raw = GoodAISStream
    /\ p_out.ok
    /\ p_out.rec.latitude = 26
    /\ p_out.rec.longitude = 56

\* a position inside the rectangle
InRangePosition(a, raw) ==
    /\ HasPosition(a, raw)
    /\ ~OutOfRange(Val(InLat(a, raw)), Val(InLon(a, raw)))

\* C17: for each of the four adapters, a raw message whose heading is 511
\* and which is valid otherwise is accepted by parse_message, and the record
\* has no true_heading; no record has true_heading = 511.
C17_Heading511Normalised ==
    /\ (p_done /\ p_out.ok) => p_out.rec.true_heading # Some(511)
    /\ ( /\ p_done
         /\ InHeading(p_variant, p_raw) = Some(511)
         /\ Truthy(InMmsi(p_variant, p_raw))
         /\ InTimestamp(p_variant, p_raw) = "" \/ FromIsoFormat(InTimestamp(p_variant, p_raw))
         /\ InRangePosition(p_variant, p_raw) )
       => (p_out.ok /\ p_out.rec.true_heading = Nothing)

\* the fixed enumeration's value for each code that has one, from the
\* members of NavigationStatus
EnumValue ==
    [c \in {0, 1, 2, 3, 4, 5, 6, 7, 8, 15} |->
        CASE c = 0 -> "under_way_using_engine"
          [] c = 1 -> "at_anchor"
          [] c = 2 -> "not_under_command"
          [] c = 3 -> "restricted_maneuverability"
          [] c = 4 -> "constrained_by_draft"
          [] c = 5 -> "moored"
          [] c = 6 -> "aground"
          [] c = 7 -> "fishing"
          [] c = 8 -> "under_way_sailing"
          [] OTHER -> "not_defined"]

\* the navigation-status code of a raw message, for the two sources that
\* send one
InNavStatus(a, raw) == IF a = "aisstream" THEN raw.NavigationalStatus ELSE raw.navStat

\* C18: the codes 0 to 8 and 15 map to ten pairwise distinct members of
\* NavigationStatus, 0 to under_way_using_engine, and every other code maps
\* to not_defined; a record parsed by either parser that reads a code
\* (AISStream, Digitraffic) carries the member its message's code maps to.
C18_StatusMapping ==
    /\ Cardinality({EnumValue[c] : c \in DOMAIN EnumValue}) = 10
    /\ EnumValue[0] = "under_way_using_engine"
    /\ (p_done /\ p_out.ok /\ p_variant \in {"aisstream", "digitraffic"}) =>
          LET code == InNavStatus(p_variant, p_raw)
          IN  p_out.rec.navigation_status =
                 IF ~IsSome(code) THEN Nothing
                 ELSE IF Val(code) \in DOMAIN EnumValue THEN Some(EnumValue[Val(code)])
                 ELSE Some("not_defined")

\* a Digitraffic feature with navStat 9, a code outside the ten, has been
\* parsed to not_defined
C18_Witness ==
    /\ p_done
    /\ p_out.ok
    /\ p_variant = "digitraffic"
    /\ p_raw.navStat = Some(9)
    /\ p_out.rec.navigation_status = Some("not_defined")

\* the position of a raw message is missing (a coordinate's key is absent)
\* or zero-valued (both coordinates are 0)
NoPosition(a, raw) ==
    \/ ~HasPosition(a, raw)
    \/ Val(InLat(a, raw)) = 0 /\ Val(InLon(a, raw)) = 0

\* C19: a raw message whose coordinates are missing or zero-valued is
\* rejected by parse_message; no record with the position (0,0) comes out
\* of a message that carries no position.
C19_NoPositionRejected ==
    (p_done /\ NoPosition(p_variant, p_raw)) => ~p_out.ok

\* C20: the Digitraffic parser reads geometry.coordinates as
\* [longitude, latitude]: in every record it returns, longitude is
\* coordinates[0] and latitude is coordinates[1]; the scenario's feature
\* (coordinates [56, 26], mmsi 123456789, sog 12, cog 45, navStat 0) yields
\* longitude 56, latitude 26, speed_over_ground 12, course_over_ground 45
\* and navigation_status under_way_using_engine.
C20_GeoJsonLongitudeFirst ==
    (p_done /\ p_variant = "digitraffic") =>
        /\ p_out.ok =>
              /\ p_out.rec.longitude = p_raw.coordinates[1]
              /\ p_out.rec.latitude = p_raw.coordinates[2]
        /\ p_raw = ScenarioFeature =>
              /\ p_out.ok
              /\ p_out.rec.mmsi = 123456789
              /\ p_out.rec.longitude = 56
              /\ p_out.rec.latitude = 26
              /\ p_out.rec.speed_over_ground = Some(12)
              /\ p_out.rec.course_over_ground = Some(45)
              /\ p_out.rec.navigation_status = Some("under_way_using_engine")

\* the scenario's feature has been parsed
C20_Witness ==
    /\ p_done
    /\ p_variant = "digitraffic"
    /\ p_raw = ScenarioFeature
    /\ p_out.ok
    /\ p_out.rec.longitude = 56

\* C21: an adapter whose source has no rate_limit, or the rate_limit 0, is
\* never suspended by its rate limiter.
C21_NoLimitNoSuspension ==
    \A a \in Adapters :
        (~IsSome(SourceRateLimit(a)) \/ SourceRateLimit(a) = Some(0)) =>
            pc[a] # "rl_sleep"

\* C22: get_status returns one entry per registered source name and no
\* other; the entry holds the collector's is_running, request_count and
\* error_count as they are at the call, and error_rate = error_count /
\* max(request_count, 1): the divisor is never 0, and with request_count = 0
\* the error_rate is error_count; the call changes no field.
C22_StatusSnapshot ==
    [][status' # status =>
         /\ UNCHANGED <<collectors, is_running, request_count, error_count>>
         /\ IsSome(status')
         /\ DOMAIN Val(status') = Range(collectors)
         /\ \A name \in Range(collectors) :
               LET e == Val(status')[name]
               IN  /\ e.is_running = is_running[name]
                   /\ e.request_count = request_count[name]
                   /\ e.error_count = error_count[name]
                   /\ e.error_rate[2] # 0
                   /\ e.error_rate[1] * Max2(request_count[name], 1)
                         = error_count[name] * e.error_rate[2]
                   /\ request_count[name] = 0 =>
                         e.error_rate = Quotient(error_count[name], 1)]_vars

\* get_status has returned the entries of two collectors, one of which has
\* errors and no request
C22_Witness ==
    /\ IsSome(status)
    /\ Len(collectors) = 2
    /\ DOMAIN Val(status) = Range(collectors)
    /\ \E name \in Range(collectors) :
          /\ request_count[name] = 0
          /\ error_count[name] = 2
          /\ Val(status)[name].error_rate = <<2, 1>>

\* C23: an adapter leaves the running state (is_running becomes false, or
\* its run-loop task ends) only when stop_collection was called on it or its
\* task was cancelled by the supervisor: request failures, cooldowns and
\* whatever the source sends keep it running.
C23_StopsOnlyOnRequest ==
    [][\A a \in Adapters :
          \/ is_running[a] /\ ~is_running'[a]
          \/ Live(a) /\ ~Live(a)'
          => (stop_requested'[a] \/ pc'[a] = "cancelled")]_vars

\* C24: within one adapter the records handed to the publisher are, in
\* order, the records of the accepted ones among the raw messages taken so
\* far: one record per accepted message, none twice, none out of arrival
\* order; every raw message taken has been either published or counted as
\* rejected before the next step.
C24_PublishedInArrivalOrder ==
    \A a \in Adapters :
        /\ handed[a] = AcceptedRecords(a, received[a])
        /\ Len(handed[a]) + Cardinality(RejectedIn(a, received[a])) = Len(received[a])
        /\ Len(broker[a]) <= Len(handed[a])

\* an adapter has published the records of two different vessels in the
\* order in which their messages arrived
C24_Witness ==
    \E a \in Adapters :
        /\ Len(handed[a]) = 2
        /\ handed[a][1].mmsi = 987654321
        /\ handed[a][2].mmsi = 123456789
        /\ Len(received[a]) = 2

\* session.get of a is called in this step: a new request is pending
RequestIssued(a) ==
    /\ pc'[a] = "await_http"
    /\ inbox'[a] = NoResp
    /\ pc[a] # "await_http" \/ inbox[a] # NoResp

\* C25: in a polling adapter every request is issued in the step in which a
\* call of the rate limiter returns (so last_request_time is the time of the
\* request), also after a 60 s or 30 s cooldown; an iteration calls the
\* limiter once; and when a call of the limiter returns and the adapter is
\* still running, the request is issued.
C25_LimiterOncePerRequest ==
    [][\A a \in PollingAdapters :
          /\ RequestIssued(a) =>
                /\ RateLimiterReturns(a)
                /\ last_request_time'[a] = now'
          /\ (RateLimiterReturns(a) /\ is_running'[a]) => RequestIssued(a)
          /\ attempts'[a] \in {attempts[a], attempts[a] + 1}
          /\ pc[a] = "rl_sleep" => attempts'[a] = attempts[a]]_vars

\* the second request of a polling adapter is pending: it was issued when
\* the 30 s cooldown after the failure of the first was over, with the
\* limiter called at that time
C25_Witness ==
    \E a \in PollingAdapters :
        /\ attempts[a] = 2
        /\ pc[a] = "await_http"
        /\ inbox[a] = NoResp
        /\ now = StartTime + ErrorCooldown
        /\ last_request_time[a] = now

\* the counters and the limiter's time of adapter a
Counters(a) == <<request_count[a], error_count[a], last_request_time[a]>>

\* the task of adapter a runs in this step
OwnStep(a) == Live(a) /\ (pc'[a] # pc[a] \/ inbox'[a] # inbox[a]) /\ UNCHANGED mgrVars

\* C26: the counters and last_request_time of an adapter change only in a
\* step of that adapter's own task, and is_running only in such a step or by
\* a stop request or a cancellation; a step of one adapter's task leaves the
\* four fields of every other adapter as they are; and no step of the
\* supervisor (add_collector, start_all, stop_all) changes any adapter's
\* request_count, error_count or last_request_time.
C26_AdapterStatePrivate ==
    [][/\ \A a \in Adapters :
             /\ Counters(a)' # Counters(a) => OwnStep(a)
             /\ is_running'[a] # is_running[a] =>
                   (OwnStep(a) \/ stop_requested'[a] \/ pc'[a] = "cancelled")
             /\ OwnStep(a) =>
                   \A b \in Adapters \ {a} :
                       /\ Counters(b)' = Counters(b)
                       /\ is_running'[b] = is_running[b]
       /\ mgrVars' # mgrVars =>
             UNCHANGED <<request_count, error_count, last_request_time>>]_vars

\* the task of one adapter has run and changed that adapter's error_count
\* and last_request_time; another adapter, started before it, is still
\* running and waits for its answer with its own fields untouched
C26_Witness ==
    \E a, b \in Adapters :
        /\ a # b
        /\ error_count[a] = 1 /\ last_request_time[a] = StartTime /\ ~is_running[a]
        /\ is_running[b] /\ pc[b] = "await_http"
        /\ last_request_time[b] = StartTime /\ error_count[b] = 0

\* C27: every record parse_message returns has an mmsi of exactly nine
\* digits, and a message whose identifier is missing or is not a nine-digit
\* number is rejected.
C27_NineDigitMmsi ==
    p_done =>
        /\ p_out.ok => (100000000 <= p_out.rec.mmsi /\ p_out.rec.mmsi <= 999999999)
        /\ ( \/ ~IsSome(InMmsi(p_variant, p_raw))
             \/ Val(InMmsi(p_variant, p_raw)) < 100000000
             \/ Val(InMmsi(p_variant, p_raw)) > 999999999 ) => ~p_out.ok

\* the run-loop tasks of adapter a that are live
LiveTasks(a) == (IF Live(a) THEN 1 ELSE 0) + orphaned[a]

\* C28: whatever the order of add_collector, start_all and stop_all calls,
\* an adapter never has more than one live run-loop task, and when stop_all
\* has returned no run-loop task is live.
C28_OneTaskPerAdapter ==
    /\ \A a \in Adapters : LiveTasks(a) <= 1
    /\ (mgr_pc = "idle" /\ tasks = <<>> /\ stop_dur >= 0) =>
           \A a \in Adapters : LiveTasks(a) = 0

\* C29: when the run of an adapter ends, is_running is false afterwards,
\* however it ends: the loop finished or found the stop, an exception left
\* collect_data, or the task was cancelled.  An exception that leaves
\* collect_data (the NameError of marineplan) ends start_collection normally
\* and adds exactly one to error_count; a run that ends otherwise adds
\* nothing.
C29_RunEndClearsIsRunning ==
    /\ [](\A a \in Adapters : TaskDone(a) => ~is_running[a])
    /\ [][\A a \in Adapters :
             (Live(a) /\ TaskDone(a)') =>
                 /\ ~is_running'[a]
                 /\ request_count'[a] = request_count[a]
                 /\ error_count'[a] =
                        IF a = "marineplan" /\ pc'[a] = "done"
                        THEN error_count[a] + 1 ELSE error_count[a]]_vars

\* the run of marineplan has ended by its exception, counted once, and the
\* run of another adapter has ended at its loop head after a stop
C29_Witness ==
    /\ pc["marineplan"] = "done"
    /\ error_count["marineplan"] = 1
    /\ ~is_running["marineplan"]
    /\ \E b \in Adapters : pc[b] = "done" /\ b # "marineplan" /\ stop_requested[b]
                              /\ ~is_running[b] /\ error_count[b] = 0

\* the run of a ends in this step with an exception that left collect_data
RunRaises(a) == a = "marineplan" /\ Live(a) /\ pc'[a] = "done"

\* C30: in every step request_count + error_count of an adapter grows by
\* the number of raw messages its run loop takes and handles in the step,
\* plus one if its run ends with an exception in the step: request_count by
\* one for each message accepted, error_count by one for each message
\* rejected and for the exception.  Neither counter ever decreases, also
\* when the adapter is stopped and started again; so the sum is always the
\* number of messages handled plus the number of runs ended by an exception.
C30_CountersAccountForMessages ==
    [][\A a \in Adapters :
          LET taken == TakenInStep(a)
              raised == IF RunRaises(a) THEN 1 ELSE 0
          IN  /\ request_count'[a] = request_count[a] + Len(AcceptedRecords(a, taken))
              /\ error_count'[a] =
                     error_count[a] + Cardinality(RejectedIn(a, taken)) + raised
              /\ request_count'[a] + error_count'[a] =
                     request_count[a] + error_count[a] + Len(taken) + raised
              /\ request_count'[a] >= request_count[a]
              /\ error_count'[a] >= error_count[a]]_vars

\* an adapter that has handled one accepted and one rejected message has
\* been stopped and its task created again, with its counters as they were
C30_Witness ==
    \E a \in Adapters :
        /\ starts = 2
        /\ pc[a] = "created"
        /\ Len(received[a]) = 2
        /\ request_count[a] = 1
        /\ error_count[a] = 1

====
